---- MODULE Spec2Model ----
(***************************************************************************)
(* Model of the command registry and remote synchronisation of the        *)
(* framework: CommandsManager (getData, registerAllApplicationCommands,   *)
(* registerPermissions, createCommand, editCommand, deleteCommand,        *)
(* deleteAllCommands) and ShewenyClient.awaitReady.                        *)
(*                                                                         *)
(* A JavaScript value that may be undefined is modelled as a sequence of  *)
(* length 0 (undefined) or 1 (the value); strings that may be undefined   *)
(* use the string "undefined".                                             *)
(***************************************************************************)
EXTENDS Integers, Sequences, FiniteSets, TLC

\* ------------------------------------------------------------------ bounds
\* number of registerAllApplicationCommands invocations pending at a time
MaxCalls == 1
\* longest guild id list handed to registerPermissions
MaxGuildList == 2
\* number of listeners the client holds
MaxListeners == 3
\* last instant of the clock
MaxTime == 6
\* handler bodies pending at once
MaxPending == 2

\* ------------------------------------------------------- optional values
Undefined == <<>>
Def(x) == <<x>>
IsDef(o) == o # <<>>
Val(o) == o[1]
Undef == "undefined"

\* ------------------------------------------------------------ environment
\* guild ids the calls may name; the client caches only some of them
Guilds == {"g1", "g2", "g3"}
CachedGuilds == {"g1", "g2"}
Scopes == {"global"} \cup Guilds
\* guild.roles.cache of every cached guild: role id and granted permissions
Roles(g) ==
  IF g = "g1"
    THEN {[id |-> "r1", permissions |-> {"SEND_MESSAGES", "KICK_MEMBERS"}],
          [id |-> "r2", permissions |-> {"SEND_MESSAGES"}]}
    ELSE IF g = "g2"
      THEN {[id |-> "r3", permissions |-> {"KICK_MEMBERS"}]}
      ELSE {}
\* the admin lists a client may be configured with
AdminLists == {{}, {"u1", "u2"}}

\* the files of the handler directory, in the order a scan discovers them
Paths == <<"a.js", "b.js", "c.js">>
PathSet == {Paths[k] : k \in DOMAIN Paths}
\* a file: absent, or a module with or without a default export; the default
\* export stands for the instance its constructor builds
NoFile == [present |-> FALSE, default |-> Undefined]
NoDefaultExport == [present |-> TRUE, default |-> Undefined]
Module(instance) == [present |-> TRUE, default |-> Def(instance)]
EmptyDirectory == [p \in PathSet |-> NoFile]

\* the command types that are application commands
Registrable == {"SLASH_COMMAND", "CONTEXT_MENU_USER", "CONTEXT_MENU_MESSAGE"}
\* Command instances as the Command constructor builds them; path is the field
\* of BaseStructure, undefined until a loader records it
Command(n, t, dp, up, ao, ch) ==
  [name |-> n, type |-> t, description |-> "", options |-> Undef,
   defaultPermission |-> IF t \in Registrable THEN dp ELSE Undef,
   userPermissions |-> up, clientPermissions |-> {}, adminsOnly |-> ao,
   channel |-> ch, cooldown |-> 0, path |-> Undef]
Cmd(n, t, dp, up) == Command(n, t, dp, up, FALSE, Undef)
Ping == Cmd("ping", "SLASH_COMMAND", Undef, {})
Ban == Cmd("ban", "SLASH_COMMAND", "true", {"SEND_MESSAGES", "KICK_MEMBERS"})
Info == Cmd("info", "CONTEXT_MENU_USER", "true", {"SEND_MESSAGES"})
Say == Cmd("say", "MESSAGE_COMMAND", Undef, {"SEND_MESSAGES"})
Odd == Cmd("odd", "UNKNOWN_TYPE", Undef, {})
\* the collections loadFiles may produce (one entry per name)
Directories == {{}, {Say, Odd}, {Ping, Say}, {Ping, Ban, Info}}
\* single definitions handed to getData / createCommand / editCommand
Definitions == {Ping, Ban, Info, Say, Odd}

Procs == 1..MaxCalls

VARIABLES
  applicationPermissions, \* CommandsManager.applicationPermissions
  guildId,                \* CommandsManager.guildId
  admins,                 \* ShewenyClient.admins
  commands,               \* CommandsManager.commands (optional collection)
  ready,                  \* the client has emitted 'ready'
  remote,                 \* scope -> application commands registered remotely
  remotePerms,            \* guild -> permission table set remotely
  inv,                    \* the registerAllApplicationCommands invocations
  fan,                    \* registerPermissions(..., guildId[]) submissions
  disk,                   \* the handler directory: path -> module file
  cache,                  \* the module cache: path -> module loaded from it
  events,                 \* ShewenyClient.events (EventsHandler)
  imports,                \* the import() calls of Command.register in flight
  listeners,              \* the listeners of the client, in registration order
  cooldowns,              \* the cooldown entries: command, user -> expiry
  now,                    \* the clock
  bodies,                 \* the handler bodies that are still running
  last                    \* what the latest step did at the manager's API

vars == <<applicationPermissions, guildId, admins, commands, ready, remote,
          remotePerms, inv, fan, disk, cache, events, imports, listeners,
          cooldowns, now, bodies, last>>

config == <<applicationPermissions, guildId, admins>>
loader == <<disk, cache, events, imports>>
dispatch == <<listeners, cooldowns, now, bodies>>

\* --------------------------------------------------------------- getData
renameCommandType(type) ==
  IF type = "SLASH_COMMAND" THEN "CHAT_INPUT"
  ELSE IF type = "CONTEXT_MENU_MESSAGE" THEN "MESSAGE"
  ELSE IF type = "CONTEXT_MENU_USER" THEN "USER"
  ELSE Undef

\* the ternary without its guild id condition
projectedDefault_anyScope(cmd) ==
  IF applicationPermissions /\ Cardinality(cmd.userPermissions) > 0
    THEN "false"
    ELSE cmd.defaultPermission

\* the defaultPermission ternary of getData
projectedDefault(cmd) ==
  IF applicationPermissions /\ guildId # Undef /\ Cardinality(cmd.userPermissions) > 0
    THEN "false"
    ELSE cmd.defaultPermission

\* the single-definition branch projecting every definition that is no
\* context-menu command as a slash command
getDataOne_noSkip(cmd) ==
  IF cmd.type \in {"CONTEXT_MENU_MESSAGE", "CONTEXT_MENU_USER"}
    THEN Def([type |-> renameCommandType(cmd.type), name |-> cmd.name,
              defaultPermission |-> projectedDefault(cmd)])
    ELSE Def([type |-> "CHAT_INPUT", name |-> cmd.name,
              description |-> cmd.description, options |-> cmd.options,
              defaultPermission |-> projectedDefault(cmd)])

\* getData(command): the single-definition branch
getDataOne(cmd) ==
  IF cmd.type = "MESSAGE_COMMAND" THEN Undefined
  ELSE IF renameCommandType(cmd.type) = Undef THEN Undefined
  ELSE IF cmd.type = "SLASH_COMMAND"
    THEN Def([type |-> renameCommandType(cmd.type), name |-> cmd.name,
              description |-> cmd.description, options |-> cmd.options,
              defaultPermission |-> projectedDefault(cmd)])
  ELSE IF cmd.type \in {"CONTEXT_MENU_MESSAGE", "CONTEXT_MENU_USER"}
    THEN Def([type |-> renameCommandType(cmd.type), name |-> cmd.name,
              defaultPermission |-> projectedDefault(cmd)])
  ELSE Undefined

\* the collection branch leaving the context-menu commands out
getDataAll_slashOnly(coll) ==
  {[type |-> renameCommandType(cmd.type), name |-> cmd.name,
    description |-> cmd.description, options |-> cmd.options,
    defaultPermission |-> projectedDefault(cmd)] :
     cmd \in {c \in coll : c.type = "SLASH_COMMAND"}}

\* getData(collection): the collection branch, one entry per projected command
getDataAll(coll) ==
  LET kept == {cmd \in coll : /\ cmd.type # "MESSAGE_COMMAND"
                              /\ renameCommandType(cmd.type) # Undef
                              /\ cmd.type \in {"SLASH_COMMAND", "CONTEXT_MENU_MESSAGE",
                                               "CONTEXT_MENU_USER"}}
  IN {IF cmd.type = "SLASH_COMMAND"
        THEN [type |-> renameCommandType(cmd.type), name |-> cmd.name,
              description |-> cmd.description, options |-> cmd.options,
              defaultPermission |-> projectedDefault(cmd)]
        ELSE [type |-> renameCommandType(cmd.type), name |-> cmd.name,
              defaultPermission |-> projectedDefault(cmd)] : cmd \in kept}

\* ------------------------------------------------------------ remote API
\* the ApplicationCommand the platform keeps for a submitted definition; the
\* platform identifies it by scope and name and defaults default_permission
ApplicationCommand(d, scope) ==
  [id |-> <<scope, d.name>>, name |-> d.name, type |-> d.type,
   defaultPermission |-> IF d.defaultPermission = Undef THEN "true"
                         ELSE d.defaultPermission]

\* application.commands.set(data[, guildId]): the full replace of one scope
commandsSet(data, scope) ==
  [remote EXCEPT ![scope] = {ApplicationCommand(d, scope) : d \in data}]

\* application.commands.create(data[, guildId]): same name is overwritten
commandsCreate(d, scope) ==
  [remote EXCEPT ![scope] =
     {a \in @ : a.name # d.name} \cup {ApplicationCommand(d, scope)}]

\* application.commands.edit(old, data[, guildId])
commandsEdit(old, d, scope) ==
  [remote EXCEPT ![scope] =
     {a \in @ : a.id # old} \cup {ApplicationCommand(d, scope)}]

\* application.commands.delete(command[, guildId])
commandsDelete(old, scope) ==
  [remote EXCEPT ![scope] = {a \in @ : a.id # old}]

\* every call addressing the global scope
scopeOf_global(g) == "global"

\* the scope a call with this guildId argument addresses
scopeOf(g) == IF g # Undef THEN g ELSE "global"

\* ---------------------------------------------------- registerPermissions
\* getRoles keeping every role that grants some required permission
getRoles_anyOverlap(command, g) ==
  IF Cardinality(command.userPermissions) = 0 THEN {}
  ELSE IF g \in CachedGuilds
    THEN {r \in Roles(g) : command.userPermissions \cap r.permissions # {}}
    ELSE {}

\* getRoles: the guild roles granting every permission the command requires
getRoles(command, g) ==
  IF Cardinality(command.userPermissions) = 0 THEN {}
  ELSE IF g \in CachedGuilds
    THEN {r \in Roles(g) : command.userPermissions \subseteq r.permissions}
    ELSE {}

\* the override list built for one application command
permissionsFor(appCommand, coll, g) ==
  LET command == CHOOSE c \in coll : c.name = appCommand.name
  IN {[id |-> r.id, type |-> "ROLE", permission |-> TRUE] : r \in getRoles(command, g)}
     \cup {[id |-> u, type |-> "USER", permission |-> TRUE] : u \in admins}

fullPermissions(appCommands, coll, g) ==
  {[id |-> a.id, permissions |-> permissionsFor(a, coll, g)] : a \in appCommands}

\* commandsCollection.get(appCommand.name)! yields undefined for some record
missingDefinition(appCommands, coll) ==
  \E a \in appCommands : \A c \in coll : c.name # a.name

\* registerPermissions without the check of its guild id
registerPermissionsOne_noGuildCheck(appCommands, coll, g) ==
  IF ~IsDef(appCommands) THEN [kind |-> "ReferenceError"]
  ELSE IF ~IsDef(coll) THEN [kind |-> "ReferenceError"]
  ELSE IF missingDefinition(Val(appCommands), Val(coll)) THEN [kind |-> "TypeError"]
  ELSE IF g \notin CachedGuilds THEN [kind |-> "skipped"]
  ELSE [kind |-> "submit", guild |-> g,
        fullPermissions |-> fullPermissions(Val(appCommands), Val(coll), g)]

\* registerPermissions for one guild id, up to its await: what it does
registerPermissionsOne(appCommands, coll, g) ==
  IF ~IsDef(appCommands) THEN [kind |-> "ReferenceError"]
  ELSE IF ~IsDef(coll) THEN [kind |-> "ReferenceError"]
  ELSE IF g = Undef THEN [kind |-> "ReferenceError"]
  ELSE IF missingDefinition(Val(appCommands), Val(coll)) THEN [kind |-> "TypeError"]
  ELSE IF g \notin CachedGuilds THEN [kind |-> "skipped"]
  ELSE [kind |-> "submit", guild |-> g,
        fullPermissions |-> fullPermissions(Val(appCommands), Val(coll), g)]

\* ------------------------------------------------------------------- Init
NoStep == [op |-> "none"]
Idle ==
  [pc |-> "idle", guildId |-> Undef, data |-> {}, cmds |-> {}, perm |-> Undefined,
   err |-> "", seenReady |-> FALSE, nSet |-> 0, nPerm |-> 0]

\* the state the constructors leave, for the given choices of the options and
\* the given handler directory
ConstructedOn(permissionOptions, guildOptions, adminOptions, directory) ==
  /\ applicationPermissions \in permissionOptions
  /\ guildId \in guildOptions
  /\ admins \in adminOptions
  /\ commands = Undefined
  /\ ready = FALSE
  /\ remote = [s \in Scopes |-> {}]
  /\ remotePerms = [g \in Guilds |-> {}]
  /\ inv = [i \in Procs |-> Idle]
  /\ fan = <<>>
  /\ disk = directory
  /\ cache = [p \in PathSet |-> Undefined]
  /\ events = {}
  /\ imports = <<>>
  /\ listeners = <<>>
  /\ cooldowns = {}
  /\ now = 0
  /\ bodies = {}
  /\ last = NoStep

Constructed(permissionOptions, guildOptions, adminOptions) ==
  ConstructedOn(permissionOptions, guildOptions, adminOptions, EmptyDirectory)

Init == Constructed(BOOLEAN, {Undef, "g1"}, {{"u1", "u2"}})

\* ---------------------------------------------------------------- loader
\* CommandsManager.loadAll: the collection loadFiles built replaces the old one
loadAll(coll) ==
  /\ commands' = Def(coll)
  /\ cooldowns' = {}
  /\ last' = NoStep
  /\ UNCHANGED <<config, loader, ready, remote, remotePerms, inv, fan,
                 listeners, now, bodies>>

\* ------------------------------------------------------------- awaitReady
\* awaitReady() resolving at once, without subscribing to 'ready'
awaitReady_resolved(i, rec) == [inv EXCEPT ![i] = [rec EXCEPT !.pc = "resumed"]]

\* awaitReady(): the invocation subscribes to 'ready' and suspends
awaitReady(i, rec) == [inv EXCEPT ![i] = [rec EXCEPT !.pc = "awaitReady"]]

\* the client emits its one 'ready' event: every subscribed promise resolves
ClientReady ==
  /\ ~ready
  /\ ready' = TRUE
  /\ inv' = [i \in Procs |->
               IF inv[i].pc = "awaitReady"
                 THEN [inv[i] EXCEPT !.pc = "resumed", !.seenReady = TRUE]
                 ELSE inv[i]]
  /\ last' = NoStep
  /\ UNCHANGED <<config, dispatch, loader, commands, remote, remotePerms, fan>>

\* ------------------------------------------- registerAllApplicationCommands
\* the invocation is over: its locals are gone, what it did remains
settled(i, pc, e) == [inv EXCEPT ![i] = [Idle EXCEPT !.pc = pc, !.err = e]]
failed(i, e) == settled(i, "failed", e)
\* what an invocation had done when it returned or threw
did(rec) ==
  [guildId |-> rec.guildId, data |-> rec.data, seenReady |-> rec.seenReady,
   nSet |-> rec.nSet, nPerm |-> rec.nPerm]
returned(i) == settled(i, "done", "")

\* entry of registerAllApplicationCommands up to the await of awaitReady
registerAllApplicationCommands(i, c, g) ==
  LET cc == IF IsDef(c) THEN c ELSE commands
      gg == IF g # Undef THEN g ELSE guildId
  IN /\ inv[i].pc \in {"idle", "done", "failed"}
     /\ \A j \in Procs : j < i => inv[j].pc # "idle"
     /\ IF ~IsDef(cc) \/ ~IsDef(commands)
          THEN /\ inv' = failed(i, "NotFound")
               /\ last' = [op |-> "throw", by |-> i, value |-> "NotFound", did |-> did(Idle),
                           in |-> "registerAll", args |-> <<cc>>]
          ELSE /\ inv' = awaitReady(i, [Idle EXCEPT !.guildId = gg,
                                                    !.data = getDataAll(Val(commands))])
               /\ last' = [op |-> "registerAll", by |-> i, commands |-> Val(cc),
                           guildId |-> g, data |-> getDataAll(Val(commands))]
     /\ UNCHANGED <<config, dispatch, loader, commands, ready, remote, remotePerms, fan>>

\* the test sending even an empty projection
nonEmpty_always(data) == TRUE

\* data instanceof Array && data.length > 0
nonEmpty(data) == Cardinality(data) > 0

\* after the wait: a non-empty projection is sent as one bulk replace
bulkReplace(i) ==
  /\ inv[i].pc = "resumed"
  /\ IF nonEmpty(inv[i].data)
       THEN /\ inv' = [inv EXCEPT ![i].pc = "awaitSet", ![i].nSet = @ + 1]
            /\ last' = [op |-> "commands.set", by |-> i,
                        scope |-> scopeOf(inv[i].guildId), payload |-> inv[i].data]
       ELSE /\ inv' = returned(i)
            /\ last' = [op |-> "return", by |-> i, value |-> Undefined, did |-> did(inv[i])]
  /\ UNCHANGED <<config, dispatch, loader, commands, ready, remote, remotePerms, fan>>

\* the platform applies the bulk replace and answers with the new records
RemoteSetOk(i) ==
  /\ inv[i].pc = "awaitSet"
  /\ remote' = commandsSet(inv[i].data, scopeOf(inv[i].guildId))
  /\ inv' = [inv EXCEPT ![i].pc = "setDone",
                        ![i].cmds = remote'[scopeOf(inv[i].guildId)]]
  /\ last' = [op |-> "replaced", by |-> i, scope |-> scopeOf(inv[i].guildId),
              removed |-> {a.name : a \in remote[scopeOf(inv[i].guildId)]}
                          \ {d.name : d \in inv[i].data}]
  /\ UNCHANGED <<config, dispatch, loader, commands, ready, remotePerms, fan>>

\* the platform rejects the bulk replace: registerAll rejects with it
RemoteSetFail(i) ==
  /\ inv[i].pc = "awaitSet"
  /\ inv' = failed(i, "RemoteApiFailure")
  /\ last' = [op |-> "throw", by |-> i, value |-> "RemoteApiFailure", did |-> did(inv[i])]
  /\ UNCHANGED <<config, dispatch, loader, commands, ready, remote, remotePerms, fan>>

\* the arguments registerAll hands to registerPermissions(cmds)
permissionsCall(i) ==
  registerPermissionsOne(Def(inv[i].cmds), commands, guildId)

\* after the replace: registerPermissions(cmds) when enabled, then return cmds
afterSet(i) ==
  /\ inv[i].pc = "setDone"
  /\ IF ~applicationPermissions
       THEN /\ inv' = returned(i)
            /\ last' = [op |-> "return", by |-> i, value |-> Def(inv[i].cmds), did |-> did(inv[i])]
       ELSE LET out == permissionsCall(i)
            IN IF out.kind = "submit"
                 THEN /\ inv' = [inv EXCEPT ![i].pc = "awaitPerms", ![i].nPerm = @ + 1,
                                            ![i].perm = Def(out)]
                      /\ last' = [op |-> "permissions.set", by |-> i,
                                  guild |-> out.guild, payload |-> out.fullPermissions]
                 ELSE IF out.kind = "skipped"
                   THEN /\ inv' = returned(i)
                        /\ last' = [op |-> "return", by |-> i, value |-> Def(inv[i].cmds), did |-> did(inv[i])]
                   ELSE /\ inv' = failed(i, out.kind)
                        /\ last' = [op |-> "throw", by |-> i, value |-> out.kind, did |-> did(inv[i])]
  /\ UNCHANGED <<config, dispatch, loader, commands, ready, remote, remotePerms, fan>>

\* guild.commands.permissions.set({ fullPermissions }) replaces the table
permissionsSet(g, full) == [remotePerms EXCEPT ![g] = full]

RemotePermsOk(i) ==
  /\ inv[i].pc = "awaitPerms"
  /\ remotePerms' = permissionsSet(Val(inv[i].perm).guild, Val(inv[i].perm).fullPermissions)
  /\ inv' = returned(i)
  /\ last' = [op |-> "return", by |-> i, value |-> Def(inv[i].cmds), did |-> did(inv[i])]
  /\ UNCHANGED <<config, dispatch, loader, commands, ready, remote, fan>>

RemotePermsFail(i) ==
  /\ inv[i].pc = "awaitPerms"
  /\ inv' = failed(i, "RemoteApiFailure")
  /\ last' = [op |-> "throw", by |-> i, value |-> "RemoteApiFailure", did |-> did(inv[i])]
  /\ UNCHANGED <<config, dispatch, loader, commands, ready, remote, remotePerms, fan>>

\* ------------------------------------------ registerPermissions(guildId[])
\* what one callback of guildId.every(async ...) leaves behind for its guild
attempt(g, out) ==
  IF out.kind = "submit"
    THEN [guild |-> g, status |-> "pending", fullPermissions |-> out.fullPermissions]
    ELSE [guild |-> g, status |-> IF out.kind = "skipped" THEN "skipped" ELSE "threw",
          fullPermissions |-> {}]

\* every over a callback that reports its guild's outcome synchronously: the
\* iteration ends with the first guild whose submission is not made
every_untilFalsy(attempts) ==
  LET stop == {k \in DOMAIN attempts : attempts[k].status # "pending"}
  IN IF stop = {} THEN attempts
     ELSE SubSeq(attempts, 1, CHOOSE k \in stop : \A j \in stop : k <= j)

\* Array.prototype.every over the async callback: each callback returns a
\* promise, which is truthy, so every element of the list is visited
every(attempts) == attempts

\* client.application is set once the client is ready; before that the
\* optional chain application?.commands yields undefined and no call is made
applicationDefined == ready

\* the default of applicationCommands: client.application?.commands.cache
applicationCommandsOr(appCommands) ==
  IF IsDef(appCommands) THEN appCommands
  ELSE IF applicationDefined THEN Def(remote["global"]) ELSE Undefined

\* registerPermissions(applicationCommands, this.commands, guildId[])
registerPermissions(appCommands, guildIds) ==
  LET ac == applicationCommandsOr(appCommands)
  IN /\ \A k \in DOMAIN fan : fan[k].status # "pending"
     /\ IF ~IsDef(ac) \/ ~IsDef(commands)
          THEN /\ fan' = <<>>
               /\ last' = [op |-> "registerPermissions", appCommands |-> ac,
                           guildIds |-> guildIds, list |-> TRUE,
                           value |-> "ReferenceError"]
          ELSE /\ fan' = every([k \in DOMAIN guildIds |->
                                  attempt(guildIds[k],
                                          registerPermissionsOne(ac, commands,
                                                                 guildIds[k]))])
               /\ last' = [op |-> "registerPermissions", appCommands |-> ac,
                           guildIds |-> guildIds, list |-> TRUE, value |-> "true"]
     /\ UNCHANGED <<config, dispatch, loader, commands, ready, remote, remotePerms, inv>>

\* registerPermissions(applicationCommands, this.commands, guildId) for one
\* guild id, this.guildId when none is given
registerPermissionsGuild(appCommands, g) ==
  LET ac == applicationCommandsOr(appCommands)
      gg == IF g # Undef THEN g ELSE guildId
      out == registerPermissionsOne(ac, commands, gg)
  IN /\ \A k \in DOMAIN fan : fan[k].status # "pending"
     /\ IF out.kind \in {"ReferenceError", "TypeError"}
          THEN /\ fan' = <<>>
               /\ last' = [op |-> "registerPermissions", appCommands |-> ac,
                           guildIds |-> <<gg>>, list |-> FALSE, value |-> out.kind]
          ELSE /\ fan' = <<attempt(gg, out)>>
               /\ last' = [op |-> "registerPermissions", appCommands |-> ac,
                           guildIds |-> <<gg>>, list |-> FALSE, value |-> "pending"]
     /\ UNCHANGED <<config, dispatch, loader, commands, ready, remote, remotePerms, inv>>

\* the platform accepts the submission of the k-th guild of the list
FanOk(k) ==
  /\ k \in DOMAIN fan
  /\ fan[k].status = "pending"
  /\ remotePerms' = permissionsSet(fan[k].guild, fan[k].fullPermissions)
  /\ fan' = [fan EXCEPT ![k].status = "ok"]
  /\ last' = NoStep
  /\ UNCHANGED <<config, dispatch, loader, commands, ready, remote, inv>>

\* the platform rejects the submission of the k-th guild of the list
FanFail(k) ==
  /\ k \in DOMAIN fan
  /\ fan[k].status = "pending"
  /\ fan' = [fan EXCEPT ![k].status = "failed"]
  /\ last' = NoStep
  /\ UNCHANGED <<config, dispatch, loader, commands, ready, remote, remotePerms, inv>>

\* ------------------------------------------------- single-command operations
\* a call that throws on its argument checks: the operation, the required
\* arguments it was given, the class of the error
rejected(name, args, value) ==
  [op |-> "rejected", in |-> name, args |-> args, value |-> value]

\* getData(command) called on one definition
getData(cmd) ==
  /\ last' = [op |-> "getData", arg |-> cmd, value |-> getDataOne(cmd)]
  /\ UNCHANGED <<config, dispatch, loader, commands, ready, remote, remotePerms, inv, fan>>

\* getData(collection) called on a collection, this.commands when none is given
getDataCollection(c) ==
  LET coll == IF IsDef(c) THEN c ELSE commands
  IN /\ last' = IF IsDef(coll)
                  THEN [op |-> "getDataAll", arg |-> Val(coll),
                        value |-> getDataAll(Val(coll))]
                  ELSE rejected("getData", <<coll>>, "NotFound")
     /\ UNCHANGED <<config, dispatch, loader, commands, ready, remote, remotePerms, inv, fan>>

noCall(name, arg, g) ==
  [op |-> name, arg |-> arg, guildId |-> g, scope |-> scopeOf(g), called |-> FALSE,
   payload |-> Undefined, ok |-> FALSE]

createCommand(c, g, ok) ==
  LET cmd == Val(c)
      data == getDataOne(cmd)
  IN /\ IF ~IsDef(c)
          THEN /\ remote' = remote
               /\ last' = rejected("createCommand", <<c>>, "NotFound")
          ELSE IF IsDef(data) /\ applicationDefined
            THEN /\ remote' = IF ok THEN commandsCreate(Val(data), scopeOf(g)) ELSE remote
                 /\ last' = [op |-> "createCommand", arg |-> cmd, guildId |-> g,
                             scope |-> scopeOf(g), called |-> TRUE, payload |-> data,
                             ok |-> ok]
            ELSE /\ remote' = remote
                 /\ last' = noCall("createCommand", cmd, g)
     /\ UNCHANGED <<config, dispatch, loader, commands, ready, remotePerms, inv, fan>>

\* the platform accepts an edit of a command it has, under a name that is free
editAccepted(old, d, scope) ==
  /\ \E a \in remote[scope] : a.id = old
  /\ \A a \in remote[scope] : a.name = d.name => a.id = old

editCommand(o, c, g) ==
  LET old == Val(o)
      cmd == Val(c)
      data == getDataOne(cmd)
      ok == IsDef(data) /\ editAccepted(old, Val(data), scopeOf(g))
  IN /\ IF ~IsDef(o) \/ ~IsDef(c)
          THEN /\ remote' = remote
               /\ last' = rejected("editCommand", <<o, c>>, "NotFound")
          ELSE IF IsDef(data) /\ applicationDefined
            THEN /\ remote' = IF ok THEN commandsEdit(old, Val(data), scopeOf(g))
                                    ELSE remote
                 /\ last' = [op |-> "editCommand", arg |-> cmd, guildId |-> g,
                             scope |-> scopeOf(g), called |-> TRUE, payload |-> data,
                             ok |-> ok]
            ELSE /\ remote' = remote
                 /\ last' = noCall("editCommand", cmd, g)
     /\ UNCHANGED <<config, dispatch, loader, commands, ready, remotePerms, inv, fan>>

\* the platform deletes a command it has and rejects an unknown one
deleteAccepted(old, scope) == \E a \in remote[scope] : a.id = old

deleteCommand(o, g) ==
  LET old == Val(o)
  IN /\ IF ~IsDef(o)
          THEN /\ remote' = remote
               /\ last' = rejected("deleteCommand", <<o>>, "NotFound")
          ELSE IF applicationDefined
            THEN /\ remote' = IF deleteAccepted(old, scopeOf(g))
                                THEN commandsDelete(old, scopeOf(g)) ELSE remote
                 /\ last' = [op |-> "deleteCommand", arg |-> old, guildId |-> g,
                             scope |-> scopeOf(g), called |-> TRUE, payload |-> Undefined,
                             ok |-> deleteAccepted(old, scopeOf(g))]
            ELSE /\ remote' = remote
                 /\ last' = noCall("deleteCommand", old, g)
     /\ UNCHANGED <<config, dispatch, loader, commands, ready, remotePerms, inv, fan>>

deleteAllCommands(g, ok) ==
  /\ IF applicationDefined
       THEN /\ remote' = IF ok THEN commandsSet({}, scopeOf(g)) ELSE remote
            /\ last' = [op |-> "deleteAllCommands", arg |-> Undef, guildId |-> g,
                        scope |-> scopeOf(g), called |-> TRUE, payload |-> Def({}), ok |-> ok]
       ELSE /\ remote' = remote
            /\ last' = noCall("deleteAllCommands", Undef, g)
  /\ UNCHANGED <<config, dispatch, loader, commands, ready, remotePerms, inv, fan>>

\* a command registered in a scope by something other than this manager
OutOfBandCommand(scope) ==
  [id |-> <<scope, "oob">>, name |-> "oob", type |-> "CHAT_INPUT",
   defaultPermission |-> "true"]

OutOfBand(scope) ==
  /\ OutOfBandCommand(scope) \notin remote[scope]
  /\ remote' = [remote EXCEPT ![scope] = @ \cup {OutOfBandCommand(scope)}]
  /\ last' = NoStep
  /\ UNCHANGED <<config, dispatch, loader, commands, ready, remotePerms, inv, fan>>

\* ---------------------------------------------------------------- modules
\* require.resolve(path): the error it throws, "" when it resolves. A path an
\* instance records was resolved when its module was loaded, and require keeps
\* the resolution of a path it has resolved.
resolveError(path) == IF path = Undef THEN "TypeError" ELSE ""

\* import(path): the error it rejects with, "" when it resolves
importError(path) ==
  IF path = Undef THEN "TypeError"
  ELSE IF ~IsDef(cache[path]) /\ ~disk[path].present THEN "MODULE_NOT_FOUND"
  ELSE ""

\* import(path): the module of the cache when the path is cached, else the file
imported(path) == IF IsDef(cache[path]) THEN Val(cache[path]) ELSE disk[path]

\* the module cache after the import of every path of a list
cacheAfter(paths) ==
  [p \in PathSet |->
     IF \E k \in DOMAIN paths : paths[k] = p THEN Def(imported(p)) ELSE cache[p]]

\* readDirAndPush: the files of the directory in traversal order
readDirAndPush == SelectSeq(Paths, LAMBDA p : disk[p].present)

\* Collection.set(instance.name, instance) keeping the entry the key had first
set_keepFirst(coll, instance) ==
  IF \E x \in coll : x.name = instance.name THEN coll ELSE coll \cup {instance}

\* Collection.set(instance.name, instance)
set(coll, instance) == {x \in coll : x.name # instance.name} \cup {instance}

\* ---------------------------------------------------------- EventsHandler
\* the loop of registerAll ending the scan at the first module it skips
registerEvents_abort(evts, paths) ==
  LET RECURSIVE scan(_, _)
      scan(acc, rest) ==
        IF rest = <<>> THEN acc
        ELSE LET m == imported(Head(rest))
             IN IF ~IsDef(m.default) THEN acc
                ELSE IF Val(m.default).name = Undef THEN acc
                ELSE scan(set(acc, [Val(m.default) EXCEPT !.path = Head(rest)]),
                          Tail(rest))
  IN scan(evts, paths)

\* the loop of registerAll over the discovered paths: a module without a
\* default export or whose instance has no name is skipped
registerEvents(evts, paths) ==
  LET RECURSIVE scan(_, _)
      scan(acc, rest) ==
        IF rest = <<>> THEN acc
        ELSE LET m == imported(Head(rest))
             IN IF ~IsDef(m.default) THEN scan(acc, Tail(rest))
                ELSE IF Val(m.default).name = Undef THEN scan(acc, Tail(rest))
                ELSE scan(set(acc, [Val(m.default) EXCEPT !.path = Head(rest)]),
                          Tail(rest))
  IN scan(evts, paths)

\* EventsHandler.registerAll: the scan adds to the collection the client has
EventsHandlerRegisterAll ==
  /\ events' = registerEvents(events, readDirAndPush)
  /\ cache' = cacheAfter(readDirAndPush)
  /\ last' = [op |-> "events.registerAll", discovered |-> readDirAndPush,
              modules |-> [p \in PathSet |-> imported(p)],
              before |-> events, value |-> events']
  /\ UNCHANGED <<config, dispatch, commands, ready, remote, remotePerms, inv, fan, disk, imports>>

\* ------------------------------------------------------------- loadFiles
\* loadFiles(client, directory, "name"): a scan into an empty collection
loadFiles == registerEvents({}, readDirAndPush)

\* CommandsManager.loadAll over the files of the directory
loadAllFiles ==
  /\ commands' = Def(loadFiles)
  /\ cooldowns' = {}
  /\ cache' = cacheAfter(readDirAndPush)
  /\ last' = [op |-> "loadAll", discovered |-> readDirAndPush,
              modules |-> [p \in PathSet |-> imported(p)],
              before |-> commands, value |-> loadFiles]
  /\ UNCHANGED <<config, ready, remote, remotePerms, inv, fan, disk, events, imports,
                 listeners, now, bodies>>

\* ------------------------------------- Command.unregister, reload, register
\* the instance as its constructor builds it
Fresh(c) == [c EXCEPT !.path = Undef]

\* client.collections.commands?.delete(this.name)
deleted(c) ==
  IF IsDef(commands) THEN Def({x \in Val(commands) : x.name # c.name}) ELSE commands

\* the import of register, with what is known of the call that issued it
importOf(c, by) ==
  [path |-> c.path, by |-> by, arg |-> c,
   prior |-> last.op = "unregister" /\ last.arg = c /\ last.value = "true",
   touched |-> FALSE]

unregister(c) ==
  /\ commands' = deleted(c)
  /\ IF resolveError(c.path) # ""
       THEN /\ cache' = cache
            /\ last' = [op |-> "unregister", arg |-> c, value |-> resolveError(c.path)]
       ELSE /\ cache' = [cache EXCEPT ![c.path] = Undefined]
            /\ last' = [op |-> "unregister", arg |-> c, value |-> "true"]
  /\ UNCHANGED <<config, dispatch, ready, remote, remotePerms, inv, fan, disk, events, imports>>

\* register up to its await of import(this.path)
register(c) ==
  /\ Len(imports) < MaxCalls
  /\ IF c.path = Undef
       THEN /\ imports' = imports
            /\ last' = [op |-> "register", arg |-> c, value |-> "TypeError"]
       ELSE /\ imports' = Append(imports, importOf(c, "register"))
            /\ last' = [op |-> "register", arg |-> c, value |-> "pending"]
  /\ UNCHANGED <<config, dispatch, commands, ready, remote, remotePerms, inv, fan, disk, cache,
                 events>>

\* reload: null without a path, else unregister and then register up to its
\* await
reload(c) ==
  /\ Len(imports) < MaxCalls
  /\ IF c.path = Undef
       THEN /\ UNCHANGED <<commands, cache, imports>>
            /\ last' = [op |-> "reload", arg |-> c, value |-> "null"]
       ELSE IF resolveError(c.path) # ""
         THEN /\ commands' = deleted(c)
              /\ UNCHANGED <<cache, imports>>
              /\ last' = [op |-> "reload", arg |-> c, value |-> resolveError(c.path)]
         ELSE /\ commands' = deleted(c)
              /\ cache' = [cache EXCEPT ![c.path] = Undefined]
              /\ imports' = Append(imports, importOf(c, "reload"))
              /\ last' = [op |-> "reload", arg |-> c, value |-> "pending"]
  /\ UNCHANGED <<config, dispatch, ready, remote, remotePerms, inv, fan, disk, events>>

\* this.cooldowns = new Collection() in the constructor: the cooldown entries
\* are a field of the instance, so when the registry receives a new instance
\* under a name, the entries its lookups find under that name are none
cooldownsAfter(entries, stored, ac) ==
  IF stored THEN {e \in entries : e.command # ac.name} ELSE entries

\* all but the k-th element
without(seq, k) == SubSeq(seq, 1, k - 1) \o SubSeq(seq, k + 1, Len(seq))

\* register setting the instance into a new collection in every case
registerInto_new(coll, ac) == [stored |-> coll, returned |-> {ac}]

\* the collection register sets the instance into: client.collections.commands
\* when there is one, else a new collection that only the caller receives
registerInto(coll, ac) ==
  IF IsDef(coll)
    THEN [stored |-> Def(set(Val(coll), ac)), returned |-> set(Val(coll), ac)]
    ELSE [stored |-> coll, returned |-> {ac}]

\* register after its import: a fresh instance is constructed and set into
\* client.collections.commands, or into a new collection when there is none
Imported(k) ==
  /\ k \in DOMAIN imports
  /\ imports' = without(imports, k)
  /\ LET call == imports[k]
         m == imported(call.path)
         ac == Val(m.default)
     IN IF importError(call.path) # ""
          THEN /\ UNCHANGED <<commands, cache, cooldowns>>
               /\ last' = [op |-> "registered", call |-> call,
                           value |-> importError(call.path)]
          ELSE /\ cache' = [cache EXCEPT ![call.path] = Def(m)]
               /\ IF ~IsDef(m.default)
                    THEN /\ UNCHANGED <<commands, cooldowns>>
                         /\ last' = [op |-> "registered", call |-> call,
                                     value |-> "TypeError"]
                    ELSE /\ commands' = registerInto(commands, ac).stored
                         /\ cooldowns' = cooldownsAfter(cooldowns, IsDef(commands), ac)
                         /\ last' = [op |-> "registered", call |-> call,
                                     value |-> "collection", instance |-> ac,
                                     returned |-> registerInto(commands, ac).returned]
  /\ UNCHANGED <<config, ready, remote, remotePerms, inv, fan, disk, events,
                 listeners, now, bodies>>

\* a file of the directory is written, or removed
WriteFile(p, m) ==
  /\ disk[p] # m
  /\ disk' = [disk EXCEPT ![p] = m]
  /\ imports' = [k \in DOMAIN imports |->
                   IF imports[k].path = p THEN [imports[k] EXCEPT !.touched = TRUE]
                   ELSE imports[k]]
  /\ last' = NoStep
  /\ UNCHANGED <<config, dispatch, commands, ready, remote, remotePerms, inv, fan, cache, events>>

\* ------------------------------------------------------------- listeners
\* a listener: its event, whether client.once added it, and what it calls:
\* the execute of a loaded event (the instance its closure holds), or the async
\* function of a built-in event
Listener(event, once, calls, handler) ==
  [event |-> event, once |-> once, calls |-> calls, handler |-> handler]

\* the elements of a set, one after the other
RECURSIVE SeqOf(_)
SeqOf(S) ==
  IF S = {} THEN <<>>
  ELSE LET x == CHOOSE y \in S : TRUE IN <<x>> \o SeqOf(S \ {x})

\* EventsManager.registerAll(events): client.once or client.on for each event
EventsManagerRegisterAll(evts) ==
  /\ IsDef(evts) => Len(listeners) + Cardinality(Val(evts)) <= MaxListeners
  /\ IF ~IsDef(evts)
       THEN /\ listeners' = listeners
            /\ last' = rejected("events.registerAll", <<evts>>, "NotFound")
       ELSE /\ listeners' = listeners \o
                 SeqOf({Listener(e.name, e.once, "execute", e) : e \in Val(evts)})
            /\ last' = [op |-> "events.listen", value |-> Val(evts)]
  /\ UNCHANGED <<config, loader, commands, ready, remote, remotePerms, inv, fan,
                 cooldowns, now, bodies>>

\* EventsHandler.loadAll: client.on for each event of client.events
EventsHandlerLoadAll ==
  /\ Len(listeners) + Cardinality(events) <= MaxListeners
  /\ listeners' = listeners \o SeqOf({Listener(e.name, FALSE, "execute", e) : e \in events})
  /\ last' = [op |-> "events.listen", value |-> events]
  /\ UNCHANGED <<config, loader, commands, ready, remote, remotePerms, inv, fan,
                 cooldowns, now, bodies>>

\* the constructor of ShewenyClient, once its directory of built-in events is
\* read: client.on(evtName, (...args) => event(this, ...args))
BuiltinEvents ==
  /\ \A k \in DOMAIN listeners : listeners[k].calls # "builtin"
  /\ Len(listeners) < MaxListeners
  /\ listeners' = Append(listeners, Listener("threadCreate", FALSE, "builtin",
                                          [name |-> "threadCreate", once |-> FALSE,
                                           path |-> "events/threadCreate"]))
  /\ last' = NoStep
  /\ UNCHANGED <<config, loader, commands, ready, remote, remotePerms, inv, fan,
                 cooldowns, now, bodies>>

\* what a call of a listener may do: return (a value, or a promise that
\* resolves), throw, or return a promise that rejects; the built-in event is
\* an async function, which never throws
Outcomes(listener) ==
  IF listener.calls = "builtin" THEN {"ok", "rejects"} ELSE {"ok", "throws", "rejects"}

\* the listeners emit calls: those of the event in order, to the first that
\* throws
calledBy(targets, out) ==
  LET throwers == {j \in DOMAIN targets : out[targets[j]] = "throws"}
  IN IF throwers = {} THEN targets
     ELSE SubSeq(targets, 1, CHOOSE j \in throwers : \A i \in throwers : j <= i)

\* an element of a sequence
In(x, seq) == \E j \in DOMAIN seq : seq[j] = x

\* the platform delivers an event: client.emit(event, ...)
Emit(event, out) ==
  LET targets == SelectSeq([k \in DOMAIN listeners |-> k],
                           LAMBDA k : listeners[k].event = event)
      called == calledBy(targets, out)
      kept == SelectSeq([k \in DOMAIN listeners |-> k],
                        LAMBDA k : ~(In(k, called) /\ listeners[k].once))
  IN /\ \A k \in DOMAIN listeners :
          /\ out[k] \in Outcomes(listeners[k])
          /\ ~In(k, targets) => out[k] = "ok"
     /\ listeners' = [j \in DOMAIN kept |-> listeners[kept[j]]]
     /\ last' = [op |-> "emit", event |-> event,
                 targets |-> [j \in DOMAIN targets |-> listeners[targets[j]]],
                 outcomes |-> [j \in DOMAIN targets |-> out[targets[j]]],
                 called |-> Len(called),
                 propagated |-> \E j \in DOMAIN called : out[called[j]] = "throws"]
     /\ UNCHANGED <<config, loader, commands, ready, remote, remotePerms, inv, fan,
                    cooldowns, now, bodies>>

\* ------------------------------------------------------------- cooldowns
\* the entry of a command and a user, if any
entryOf(entries, commandName, userId) ==
  LET found == {e \in entries : e.command = commandName /\ e.user = userId}
  IN IF found = {} THEN Undefined ELSE Def((CHOOSE e \in found : TRUE).expiresAt)

\* a check that also rejects at the instant the entry expires
checkAndConsume_late(entries, commandName, userId, t, cooldownSeconds) ==
  LET entry == entryOf(entries, commandName, userId)
  IN IF IsDef(entry) /\ t <= Val(entry)
       THEN [allowed |-> FALSE, remaining |-> Val(entry) - t, entries |-> entries]
       ELSE [allowed |-> TRUE, remaining |-> 0,
             entries |-> {e \in entries : ~(e.command = commandName /\ e.user = userId)}
                           \union {[command |-> commandName, user |-> userId,
                                    expiresAt |-> t + cooldownSeconds]}]

\* checkAndConsume(commandName, userId, now, cooldownSeconds): rejects with the
\* remaining time when an entry exists and now < expiresAt; otherwise sets the
\* entry to now + cooldownSeconds and allows
checkAndConsume(entries, commandName, userId, t, cooldownSeconds) ==
  LET entry == entryOf(entries, commandName, userId)
  IN IF IsDef(entry) /\ t < Val(entry)
       THEN [allowed |-> FALSE, remaining |-> Val(entry) - t, entries |-> entries]
       ELSE [allowed |-> TRUE, remaining |-> 0,
             entries |-> {e \in entries : ~(e.command = commandName /\ e.user = userId)}
                           \union {[command |-> commandName, user |-> userId,
                                    expiresAt |-> t + cooldownSeconds]}]

\* a trigger of a user for a command of the registry reaches the cooldown
\* check; the check and the consume are one step, and an allowed trigger
\* starts the handler body, which stays pending
Trigger(commandName, userId) ==
  /\ IsDef(commands)
  /\ \E c \in Val(commands) :
       /\ c.name = commandName
       /\ LET check == checkAndConsume(cooldowns, commandName, userId, now, c.cooldown)
          IN /\ check.allowed => Cardinality(bodies) < MaxPending
             /\ cooldowns' = check.entries
             /\ bodies' = IF check.allowed
                            THEN bodies \union {[command |-> commandName, user |-> userId,
                                                 at |-> now]}
                            ELSE bodies
             /\ last' = [op |-> "trigger", command |-> commandName, user |-> userId,
                         at |-> now, cooldown |-> c.cooldown,
                         entry |-> entryOf(cooldowns, commandName, userId),
                         before |-> cooldowns, pending |-> bodies,
                         allowed |-> check.allowed, remaining |-> check.remaining]
  /\ UNCHANGED <<config, loader, commands, ready, remote, remotePerms, inv, fan,
                 listeners, now>>

\* the gating checks in their order, and the check that fails first for a
\* command and the context of a trigger ("" when the four static checks pass)
Gates == <<"adminsOnly", "channel", "userPermissions", "clientPermissions", "cooldown">>

\* a gating that consults the cooldown before the permissions of the client
firstFailing_cooldownEarly(c, ctx) ==
  IF c.adminsOnly /\ ctx.user \notin admins THEN "adminsOnly"
  ELSE IF c.channel # Undef /\ c.channel # ctx.channel THEN "channel"
  ELSE IF ~(c.userPermissions \subseteq ctx.userPermissions) THEN "userPermissions"
  ELSE IF ~checkAndConsume(cooldowns, c.name, ctx.user, now, c.cooldown).allowed THEN ""
  ELSE IF ~(c.clientPermissions \subseteq ctx.clientPermissions) THEN "clientPermissions"
  ELSE ""

firstFailing(c, ctx) ==
  IF c.adminsOnly /\ ctx.user \notin admins THEN "adminsOnly"
  ELSE IF c.channel # Undef /\ c.channel # ctx.channel THEN "channel"
  ELSE IF ~(c.userPermissions \subseteq ctx.userPermissions) THEN "userPermissions"
  ELSE IF ~(c.clientPermissions \subseteq ctx.clientPermissions) THEN "clientPermissions"
  ELSE ""

\* the router dispatches a trigger matched to a command of the registry: the
\* gating checks in order, stopping at the first that fails, the cooldown
\* check-and-consume last, and the handler body when all of them pass
Dispatch(commandName, ctx) ==
  /\ IsDef(commands)
  /\ \E c \in Val(commands) :
       /\ c.name = commandName
       /\ LET failing == firstFailing(c, ctx)
              check == checkAndConsume(cooldowns, commandName, ctx.user, now, c.cooldown)
              cause == IF failing # "" THEN failing
                       ELSE IF ~check.allowed THEN "cooldown" ELSE ""
          IN /\ cause = "" => Cardinality(bodies) < MaxPending
             /\ cooldowns' = IF failing = "" THEN check.entries ELSE cooldowns
             /\ bodies' = IF cause = ""
                            THEN bodies \union {[command |-> commandName,
                                                 user |-> ctx.user, at |-> now]}
                            ELSE bodies
             /\ last' = [op |-> "dispatch", command |-> c, ctx |-> ctx, at |-> now,
                         entry |-> entryOf(cooldowns, commandName, ctx.user),
                         before |-> cooldowns, pending |-> bodies, cause |-> cause]
  /\ UNCHANGED <<config, loader, commands, ready, remote, remotePerms, inv, fan,
                 listeners, now>>

\* a pending handler body completes
BodyDone(body) ==
  /\ body \in bodies
  /\ bodies' = bodies \ {body}
  /\ last' = NoStep
  /\ UNCHANGED <<config, loader, commands, ready, remote, remotePerms, inv, fan,
                 listeners, cooldowns, now>>

\* a second passes
Tick ==
  /\ now < MaxTime
  /\ now' = now + 1
  /\ last' = NoStep
  /\ UNCHANGED <<config, loader, commands, ready, remote, remotePerms, inv, fan,
                 listeners, cooldowns, bodies>>

\* ------------------------------------------------------------------- Next
\* guildId arguments of the calls, and the scopes others register in
GuildArgs == {Undef, "g1"}
OutOfBandScopes == {"global", "g1"}
\* lists of distinct guild ids a caller hands to registerPermissions
GuildLists ==
  {l \in UNION {[1..n -> Guilds] : n \in 0..MaxGuildList} :
     \A j, k \in DOMAIN l : j # k => l[j] # l[k]}
CollectionArgs == {Undefined, Def({Say}), Def({Ping, Say}), Def({Ban, Info})}
CommandIds == {<<"global", "ping">>, <<"g1", "info">>}
\* application command collections a caller hands to registerPermissions
ApplicationCommandArgs ==
  {Undefined} \cup
  {Def({ApplicationCommand(d, "global") : d \in getDataAll(c)}) : c \in Directories}

\* loading, readiness and the bulk replace of registerAllApplicationCommands,
\* over the given directory contents and call arguments
ReplaceBy(procs, colls, cargs, gargs) ==
  \/ \E coll \in colls : loadAll(coll)
  \/ ClientReady
  \/ \E i \in procs, c \in cargs, g \in gargs : registerAllApplicationCommands(i, c, g)
  \/ \E i \in procs : bulkReplace(i)
  \/ \E i \in procs : RemoteSetOk(i)
  \/ \E i \in procs : RemoteSetFail(i)
  \/ \E i \in procs : afterSet(i)

Replace(colls, cargs, gargs) == ReplaceBy(Procs, colls, cargs, gargs)

\* the platform answers the permission submission of registerAll
Permissions ==
  \/ \E i \in Procs : RemotePermsOk(i)
  \/ \E i \in Procs : RemotePermsFail(i)

\* registerPermissions over the given records, guild id lists and guild ids
FanOutOver(records, lists, guilds) ==
  \/ \E s \in records, gl \in lists : registerPermissions(s, gl)
  \/ \E s \in records, g \in guilds : registerPermissionsGuild(s, g)
  \/ \E k \in 1..(MaxGuildList + 1) : FanOk(k)
  \/ \E k \in 1..(MaxGuildList + 1) : FanFail(k)

FanOut == FanOutOver(ApplicationCommandArgs, GuildLists, {Undef} \cup Guilds)

\* the single-command operations over the given definitions and references
SingleOpsOver(cmds, olds) ==
  \/ \E cmd \in Definitions : getData(cmd)
  \/ \E c \in cmds, g \in GuildArgs, ok \in BOOLEAN : createCommand(c, g, ok)
  \/ \E o \in olds, c \in cmds, g \in GuildArgs : editCommand(o, c, g)
  \/ \E o \in olds, g \in GuildArgs : deleteCommand(o, g)
  \/ \E g \in GuildArgs, ok \in BOOLEAN : deleteAllCommands(g, ok)

SingleOps ==
  SingleOpsOver({Def(c) : c \in {Info, Say, Odd}}, {Def(o) : o \in CommandIds})

\* the synchronisation of the registry with the platform
Next ==
  \/ Replace(Directories, CollectionArgs, {Undef, "g2"})
  \/ Permissions
  \/ \E s \in OutOfBandScopes : OutOfBand(s)

Spec == Init /\ [][Next]_vars

\* the bulk replace together with the single-command operations, permission
\* synchronisation off
InitOps == Constructed({FALSE}, {Undef, "g1"}, {{}})

NextOps ==
  \/ Replace({{Say, Odd}, {Ping, Say}}, {Undefined}, {Undef, "g2"})
  \/ SingleOps

SpecOps == InitOps /\ [][NextOps]_vars

\* registerPermissions over guild id lists
InitPerms == Constructed({TRUE}, {Undef, "g1"}, AdminLists)

NextPerms ==
  \/ \E coll \in Directories : loadAll(coll)
  \/ FanOut

SpecPerms == InitPerms /\ [][NextPerms]_vars

\* getData over the declared fields of a definition
PermissionSets == {{}, {"SEND_MESSAGES"}, {"SEND_MESSAGES", "KICK_MEMBERS"}}
CommandsNamed(n) ==
  {Command(n, t, dp, up, ao, ch) :
     t \in Registrable \cup {"MESSAGE_COMMAND", "UNKNOWN_TYPE"},
     dp \in {"true", "false", Undef}, up \in PermissionSets,
     ao \in BOOLEAN, ch \in {Undef, "GUILD", "DM"}}
DataCollections ==
  {Undefined} \cup {Def({c}) : c \in CommandsNamed("a")}
  \cup {Def({c, d}) : c \in {Ping, Ban, Say}, d \in {x \in CommandsNamed("b") : x.adminsOnly}}

InitData == Constructed(BOOLEAN, {Undef, "g1"}, AdminLists)

NextData ==
  \/ \E cmd \in CommandsNamed("a") : getData(cmd)
  \/ \E c \in DataCollections : getDataCollection(c)

SpecData == InitData /\ [][NextData]_vars

\* the operations called with and without their required arguments, one call
\* of registerAllApplicationCommands at a time
InitArgs == Constructed({FALSE}, {Undef, "g1"}, {{}})

NextArgs ==
  \/ ReplaceBy({1}, {{Ping, Say}}, {Undefined, Def({Ban, Info})}, {Undef})
  \/ SingleOpsOver({Undefined, Def(Info), Def(Say)},
                   {Undefined, Def(<<"global", "ping">>)})
  \/ \E c \in {Undefined, Def({Ping, Say})} : getDataCollection(c)
  \/ FanOutOver({Undefined, Def({ApplicationCommand(Val(getDataOne(Ping)), "global")})},
                {<<"g1">>}, {Undef, "g1"})

SpecArgs == InitArgs /\ [][NextArgs]_vars

\* the registry over a directory of command modules
PingMenu == Cmd("ping", "CONTEXT_MENU_USER", "true", {})
Nameless == Cmd(Undef, "SLASH_COMMAND", Undef, {})
CommandsDirectory ==
  [p \in PathSet |-> IF p = "a.js" THEN Module(Ping)
                     ELSE IF p = "b.js" THEN Module(Say) ELSE NoFile]
\* what the files are rewritten to; a.js is never removed
CommandEdits ==
  {<<"b.js", Module(Say)>>, <<"b.js", Module(PingMenu)>>,
   <<"c.js", Module(Nameless)>>, <<"c.js", NoFile>>}
\* the instances a caller holds: those of the registry, the one the latest
\* call was made on or returned, and two constructed by hand, one of them
\* given the path of a.js
Held ==
  (IF IsDef(commands) THEN Val(commands) ELSE {})
  \cup (IF last.op \in {"unregister", "reload", "register"} THEN {last.arg} ELSE {})
  \cup (IF last.op = "registered" /\ last.value = "collection"
          THEN {last.instance} ELSE {})
  \cup {Info, [Ping EXCEPT !.path = "a.js"]}

InitRegistry == ConstructedOn({FALSE}, {Undef}, {{}}, CommandsDirectory)

NextRegistry ==
  \/ loadAllFiles
  \/ \E c \in Held : unregister(c)
  \/ \E c \in Held : reload(c)
  \/ \E c \in Held : register(c)
  \/ \E k \in 1..MaxCalls : Imported(k)
  \/ \E e \in CommandEdits : WriteFile(e[1], e[2])

SpecRegistry == InitRegistry /\ [][NextRegistry]_vars

\* EventsHandler over a directory of event modules
Event(n, once) == [name |-> n, once |-> once, path |-> Undef]
EventsDirectory ==
  [p \in PathSet |-> IF p = "a.js" THEN Module(Event("ready", TRUE)) ELSE NoFile]
EventEdits ==
  {<<"a.js", Module(Event("ready", TRUE))>>, <<"a.js", NoFile>>,
   <<"b.js", NoDefaultExport>>, <<"b.js", Module(Event(Undef, FALSE))>>,
   <<"b.js", Module(Event("messageCreate", FALSE))>>, <<"b.js", NoFile>>,
   <<"c.js", Module(Event("ready", FALSE))>>,
   <<"c.js", Module(Event("guildCreate", FALSE))>>, <<"c.js", NoFile>>}

InitEvents == ConstructedOn({FALSE}, {Undef}, {{}}, EventsDirectory)

NextEvents ==
  \/ EventsHandlerRegisterAll
  \/ \E e \in EventEdits : WriteFile(e[1], e[2])

SpecEvents == InitEvents /\ [][NextEvents]_vars

\* the listeners of the events and their dispatch
EmittedEvents == {"ready", "messageCreate", "threadCreate"}
EventCollections ==
  {Undefined, Def({Event("ready", TRUE)}),
   Def({Event("ready", FALSE), Event("messageCreate", FALSE)})}

InitDispatch == ConstructedOn({FALSE}, {Undef}, {{}}, EventsDirectory)

NextDispatch ==
  \/ EventsHandlerRegisterAll
  \/ EventsHandlerLoadAll
  \/ \E evts \in EventCollections : EventsManagerRegisterAll(evts)
  \/ BuiltinEvents
  \/ \E event \in EmittedEvents :
       \E out \in [DOMAIN listeners -> {"ok", "throws", "rejects"}] : Emit(event, out)

SpecDispatch == InitDispatch /\ [][NextDispatch]_vars

\* the cooldowns of two commands and two users
Slow == [Cmd("slow", "SLASH_COMMAND", "true", {}) EXCEPT !.cooldown = 5]
Quick == [Cmd("quick", "SLASH_COMMAND", "true", {}) EXCEPT !.cooldown = 2]
CooldownDirectory ==
  [p \in PathSet |-> IF p = "a.js" THEN Module(Slow)
                     ELSE IF p = "b.js" THEN Module(Quick) ELSE NoFile]
Triggers == {<<"slow", "u1">>, <<"slow", "u2">>, <<"quick", "u1">>}

InitCooldown == ConstructedOn({FALSE}, {Undef}, {{}}, CooldownDirectory)

NextCooldown ==
  \/ ~IsDef(commands) /\ loadAllFiles
  \/ \E t \in Triggers : Trigger(t[1], t[2])
  \/ \E body \in bodies : BodyDone(body)
  \/ Tick

SpecCooldown == InitCooldown /\ [][NextCooldown]_vars

\* the gating of a command that sets every gate
Mod ==
  [Command("mod", "SLASH_COMMAND", "true", {"KICK_MEMBERS"}, TRUE, "GUILD")
     EXCEPT !.clientPermissions = {"BAN_MEMBERS"}, !.cooldown = 2]
GatingDirectory == [p \in PathSet |-> IF p = "a.js" THEN Module(Mod) ELSE NoFile]
\* the contexts of the triggers: who invokes, the kind of channel, and the
\* permissions the user and the client hold there
Contexts ==
  [user : {"u1", "u3"}, channel : {"GUILD", "DM"},
   userPermissions : {{}, {"KICK_MEMBERS"}},
   clientPermissions : {{}, {"BAN_MEMBERS"}}]

InitGating == ConstructedOn({FALSE}, {Undef}, {{"u1", "u2"}}, GatingDirectory)

NextGating ==
  \/ loadAllFiles
  \/ \E ctx \in Contexts : Dispatch("mod", ctx)
  \/ \E body \in bodies : BodyDone(body)
  \/ Tick

SpecGating == InitGating /\ [][NextGating]_vars

\* registerAll under fair scheduling: the client logs in and emits 'ready',
\* a suspended invocation that can resume does, and the platform answers
InitLive == Constructed({FALSE}, {Undef, "g1"}, {{}})

NextLive == ReplaceBy({1}, Directories, {Undefined}, {Undef, "g2"})

SpecLive ==
  /\ InitLive
  /\ [][NextLive]_vars
  /\ WF_vars(ClientReady)
  /\ WF_vars(bulkReplace(1))
  /\ WF_vars(RemoteSetOk(1) \/ RemoteSetFail(1))
  /\ WF_vars(afterSet(1))

\* the cooldown of a command that is reloaded between its triggers
ReloadDirectory == [p \in PathSet |-> IF p = "a.js" THEN Module(Slow) ELSE NoFile]

InitReload == ConstructedOn({FALSE}, {Undef}, {{}}, ReloadDirectory)

NextReload ==
  \/ ~IsDef(commands) /\ loadAllFiles
  \/ Trigger("slow", "u1")
  \/ \E c \in (IF IsDef(commands) THEN Val(commands) ELSE {}) : reload(c)
  \/ \E k \in 1..MaxCalls : Imported(k)
  \/ \E body \in bodies : BodyDone(body)
  \/ Tick

SpecReload == InitReload /\ [][NextReload]_vars

\* ------------------------------------------------------------------ claims
\* the invocations that have issued a remote call and not yet settled
Pending(i) == inv[i].pc \in {"awaitSet", "setDone", "awaitPerms"}
RemoteCalls == {"commands.set", "permissions.set"}
Settling == {"return", "throw"}

\* C1: registerAllApplicationCommands issues no remote call (bulk command
\* replace or permission replace) before the client has emitted 'ready' and
\* that very invocation has observed the event.
C1_NoRemoteCallBeforeReady ==
  /\ \A i \in Procs : inv[i].nSet + inv[i].nPerm > 0 => ready /\ inv[i].seenReady
  /\ last.op \in RemoteCalls => ready /\ inv[last.by].seenReady
  /\ last.op \in Settling /\ last.did.nSet + last.did.nPerm > 0 => last.did.seenReady

\* an invocation has issued both its bulk replace and its permission replace
C1_Witness ==
  \E i \in Procs : inv[i].pc = "awaitPerms" /\ inv[i].nSet = 1 /\ inv[i].nPerm = 1

\* what the claims expect of a projection: the registrable command types and
\* the type code of the platform for each
TypeCode(t) ==
  CASE t = "SLASH_COMMAND" -> "CHAT_INPUT"
    [] t = "CONTEXT_MENU_USER" -> "USER"
    [] t = "CONTEXT_MENU_MESSAGE" -> "MESSAGE"
ExpectedEntries(coll) ==
  {<<c.name, TypeCode(c.type)>> : c \in {x \in coll : x.type \in Registrable}}
Entries(records) == {<<r.name, r.type>> : r \in records}
Running == {"awaitReady", "resumed", "awaitSet", "setDone", "awaitPerms"}

\* C2 (as stated): whenever registerAll returns, the commands registered in
\* its scope are exactly the projection of the local registry (the one the
\* invocation computed), an empty projection included.
C2_Original ==
  last.op = "return" =>
    Entries(remote[scopeOf(last.did.guildId)]) = Entries(last.did.data)

\* C2 (amended): the projection registerAll sends is that of the registry as
\* it is when registerAll is called and stays the invocation's payload; when
\* it is non-empty and the bulk replace succeeds, the commands registered in
\* the scope are, as the replace is applied, exactly that projection (anything
\* else, out-of-band commands included, is gone); when it is empty the call
\* returns leaving the remote commands as they were.
C2_FullReplace ==
  [][/\ last'.op = "registerAll" =>
          Entries(inv'[last'.by].data) = ExpectedEntries(Val(commands'))
     /\ \A i \in Procs :
          inv[i].pc \in Running /\ inv'[i].pc \in Running => inv'[i].data = inv[i].data
     /\ last'.op = "replaced" =>
          /\ Entries(remote'[last'.scope]) = Entries(inv'[last'.by].data)
          /\ last'.scope = scopeOf(inv'[last'.by].guildId)
          /\ inv'[last'.by].data # {}
     /\ last'.op = "return" /\ last'.did.data = {} => remote' = remote]_vars

\* a bulk replace has removed a command registered out-of-band
C2_Witness == last.op = "replaced" /\ "oob" \in last.removed

\* C3: registerAll on a registry whose projection is empty (no definition,
\* or only MESSAGE_COMMAND and unresolved-type definitions) issues neither a
\* command replace nor a permission replace and returns undefined.
C3_EmptyProjectionNoCall ==
  /\ last.op = "registerAll" /\ (\A c \in Val(commands) : c.type \notin Registrable)
       => inv[last.by].data = {}
  /\ \A i \in Procs :
       inv[i].pc \in Running /\ inv[i].data = {} =>
         inv[i].pc \in {"awaitReady", "resumed"} /\ inv[i].nSet = 0 /\ inv[i].nPerm = 0
  /\ last.op = "return" /\ last.did.data = {} =>
       last.value = Undefined /\ last.did.nSet = 0 /\ last.did.nPerm = 0
  /\ last.op = "throw" /\ last.did.seenReady => last.did.data # {}

\* registerAll has returned undefined for a registry that holds definitions
C3_Witness ==
  /\ last.op = "return" /\ last.did.data = {} /\ last.did.seenReady
  /\ IsDef(commands) /\ Val(commands) = {Say, Odd}

\* C7 (as stated): the projection registerAll sends is that of the collection
\* passed to it, also when that collection is not the manager's own.
C7_Original ==
  last.op = "registerAll" => inv[last.by].data = getDataAll(last.commands)

\* C8 (as stated): with permission synchronisation enabled, a bulk replace
\* that succeeded is followed by a permission synchronisation with the
\* records of that replace, in the guild the replace was issued to, and a
\* registerAll in global scope does not fail once the replace is applied.
C8_Original ==
  /\ last.op = "permissions.set" =>
       /\ last.guild = inv[last.by].guildId
       /\ {e.id : e \in last.payload} = {a.id : a \in inv[last.by].cmds}
  /\ last.op = "throw" /\ last.did.nSet = 1 /\ last.did.guildId = Undef =>
       last.value = "RemoteApiFailure"

\* the scope a guildId (argument or configured default) stands for
ExpectedScope(g) == IF g = Undef THEN "global" ELSE g
SingleCalls == {"createCommand", "editCommand", "deleteCommand", "deleteAllCommands"}

\* C4: a registerAll invocation with a non-empty projection issues exactly
\* one bulk replace, to the guild given (as argument, else as configured) or
\* else to the global scope; a step of registerAll, deleteAllCommands,
\* createCommand, editCommand or deleteCommand changes the remote commands of
\* no scope but the one it addresses.
C4_OneScope ==
  [][/\ \A i \in Procs : inv'[i].nSet <= 1
     /\ last'.op = "registerAll" =>
          inv'[last'.by].guildId = IF last'.guildId # Undef THEN last'.guildId
                                   ELSE guildId'
     /\ last'.op = "commands.set" =>
          /\ last'.scope = ExpectedScope(inv'[last'.by].guildId)
          /\ inv'[last'.by].nSet = 1
     /\ last'.op = "return" /\ last'.did.data # {} => last'.did.nSet = 1
     /\ last'.op \in SingleCalls => last'.scope = ExpectedScope(last'.guildId)
     /\ \A s \in Scopes :
          remote'[s] # remote[s] =>
            /\ last'.op \in SingleCalls \cup {"replaced"}
            /\ last'.scope = s
            /\ last'.op = "replaced" => s = ExpectedScope(inv[last'.by].guildId)]_vars

\* a guild-scoped bulk replace has been applied while the global scope and
\* another guild hold commands of their own
C4_Witness ==
  /\ last.op = "replaced" /\ last.scope = "g2"
  /\ remote["global"] # {} /\ remote["g1"] # {} /\ remote["g2"] # {}

\* C5: a MESSAGE_COMMAND definition, and any definition whose type has no
\* remote type code, has no remote representation: getData yields undefined
\* for it, the projection of a collection holds no entry for it, and
\* createCommand and editCommand make no remote call for it.
C5_MessageCommandsStayLocal ==
  /\ last.op = "getData" /\ last.arg.type \notin Registrable => last.value = Undefined
  /\ last.op = "getData" /\ last.arg.type \in Registrable =>
       /\ IsDef(last.value)
       /\ Val(last.value).name = last.arg.name
       /\ Val(last.value).type = TypeCode(last.arg.type)
  /\ last.op = "registerAll" =>
       \A d \in inv[last.by].data : \A c \in Val(commands) :
         c.name = d.name => c.type \in Registrable
  /\ last.op = "commands.set" => last.payload = inv[last.by].data
  /\ last.op \in {"createCommand", "editCommand"} /\ last.arg.type \notin Registrable =>
       ~last.called /\ last.payload = Undefined
  /\ last.op \in {"createCommand", "editCommand"} /\ last.called =>
       Val(last.payload).name = last.arg.name

\* createCommand was called with a MESSAGE_COMMAND while the application is
\* available, and made no remote call
C5_Witness ==
  /\ last.op = "createCommand" /\ last.arg.type = "MESSAGE_COMMAND"
  /\ ready /\ ~last.called

\* C6: the projected defaultPermission, in the single and in the collection
\* form of getData, is false when applicationPermissions is enabled, a guild
\* id is configured and userPermissions is not empty, and the declared
\* defaultPermission in every other case; neither the admin list nor the
\* channel scope nor adminsOnly has a part in it.
ExpectedDefault(cmd) ==
  IF applicationPermissions /\ guildId # Undef /\ cmd.userPermissions # {}
    THEN "false"
    ELSE cmd.defaultPermission

C6_DefaultPermission ==
  /\ last.op = "getData" /\ last.arg.type \in Registrable =>
       /\ IsDef(last.value)
       /\ Val(last.value).defaultPermission = ExpectedDefault(last.arg)
  /\ last.op = "getDataAll" =>
       /\ \A c \in last.arg : c.type \in Registrable =>
            \E d \in last.value :
              d.name = c.name /\ d.defaultPermission = ExpectedDefault(c)
       /\ \A d \in last.value : \E c \in last.arg :
            d.name = c.name /\ d.defaultPermission = ExpectedDefault(c)

\* with permissions enabled and a guild configured, a definition declared
\* with defaultPermission true and a required permission is projected false
C6_Witness ==
  /\ last.op = "getDataAll" /\ applicationPermissions /\ guildId # Undef
  /\ \E c \in last.arg, d \in last.value :
       /\ c.name = d.name /\ c.defaultPermission = "true"
       /\ c.userPermissions # {} /\ d.defaultPermission = "false"

\* C9: registerPermissions for one guild submits, in one call, one entry per
\* remote record, whose overrides are a ROLE entry for each guild role that
\* grants every permission of userPermissions of the definition of that name
\* (none when userPermissions is empty), a USER entry for each configured
\* admin, and nothing else.
ExpectedOverrides(def, g) ==
  {[id |-> r.id, type |-> "ROLE", permission |-> TRUE] :
     r \in {x \in Roles(g) : /\ def.userPermissions # {}
                            /\ def.userPermissions \subseteq x.permissions}}
  \cup {[id |-> u, type |-> "USER", permission |-> TRUE] : u \in admins}

C9_PermissionEntries ==
  last.op = "registerPermissions" =>
    \A k \in DOMAIN fan :
      fan[k].status = "pending" =>
        LET full == fan[k].fullPermissions
            records == Val(last.appCommands)
        IN /\ {e.id : e \in full} = {a.id : a \in records}
           /\ Cardinality(full) = Cardinality(records)
           /\ \A a \in records : \A def \in Val(commands) :
                def.name = a.name =>
                  [id |-> a.id, permissions |-> ExpectedOverrides(def, fan[k].guild)]
                    \in full

\* a submission to g1 for the ping, ban and info records: ban is open to r1
\* alone (r2 grants one of its two permissions), admins are listed
C9_Witness ==
  /\ last.op = "registerPermissions" /\ ~last.list /\ admins # {}
  /\ Len(fan) = 1 /\ fan[1].status = "pending" /\ fan[1].guild = "g1"
  /\ \E e \in fan[1].fullPermissions :
       /\ e.id = <<"global", "ban">>
       /\ [id |-> "r1", type |-> "ROLE", permission |-> TRUE] \in e.permissions
       /\ [id |-> "r2", type |-> "ROLE", permission |-> TRUE] \notin e.permissions
  /\ \E e \in fan[1].fullPermissions :
       e.id = <<"global", "ping">> /\ \A o \in e.permissions : o.type = "USER"

\* C10: registerPermissions over a list of guild ids makes a submission
\* attempt for every guild id of the list, and the failure of one guild's
\* submission (rejected by the platform, or the guild unknown) neither keeps
\* another guild's submission from being made nor changes its outcome.
C10_FanOutIsolation ==
  [][/\ last'.op = "registerPermissions" /\ last'.list /\ last'.value = "true" =>
          /\ Len(fan') = Len(last'.guildIds)
          /\ \A k \in DOMAIN fan' :
               /\ fan'[k].guild = last'.guildIds[k]
               /\ fan'[k].guild \in CachedGuilds
                    /\ ~missingDefinition(Val(last'.appCommands), Val(commands'))
                    => fan'[k].status = "pending"
     /\ \A k \in DOMAIN fan :
          DOMAIN fan' = DOMAIN fan /\ fan[k].status = "pending"
            /\ fan'[k].status = "failed" =>
              /\ remotePerms' = remotePerms
              /\ \A j \in DOMAIN fan : j # k => fan'[j] = fan[j]
     /\ \A k \in DOMAIN fan :
          DOMAIN fan' = DOMAIN fan /\ fan[k].status = "pending"
            /\ fan'[k].status = "ok" =>
              /\ remotePerms'[fan[k].guild] = fan[k].fullPermissions
              /\ \A j \in DOMAIN fan : j # k => fan'[j] = fan[j]]_vars

\* of a list with an unknown guild and two known ones, one submission was
\* rejected and the one made after it was accepted
C10_Witness ==
  /\ last.op = "none" /\ Len(fan) = 2
  /\ fan[1].status = "failed" /\ fan[2].status = "ok"
  /\ fan[1].guild # fan[2].guild
  /\ remotePerms[fan[2].guild] = fan[2].fullPermissions
  /\ fan[2].fullPermissions # {}

\* C11: an operation called without a required argument fails before any
\* remote call and leaves the registry, the remote command sets and the remote
\* permission tables as they were: registerAll and getData without a
\* collection, createCommand, editCommand and deleteCommand without their
\* definition or reference fail with NotFound; registerPermissions without
\* remote records, local collection or guild id fails with ReferenceError.
Untouched == UNCHANGED <<config, dispatch, loader, commands, ready, remote, remotePerms, inv, fan>>

C11_MissingArgumentFails ==
  [][/\ \A g \in GuildArgs, ok \in BOOLEAN :
          createCommand(Undefined, g, ok) =>
            last'.op = "rejected" /\ last'.value = "NotFound" /\ Untouched
     /\ \A g \in GuildArgs, o \in {Undefined, Def(<<"global", "ping">>)},
           c \in {Undefined, Def(Info)} :
          (o = Undefined \/ c = Undefined) /\ editCommand(o, c, g) =>
            last'.op = "rejected" /\ last'.value = "NotFound" /\ Untouched
     /\ \A g \in GuildArgs :
          deleteCommand(Undefined, g) =>
            last'.op = "rejected" /\ last'.value = "NotFound" /\ Untouched
     /\ commands = Undefined /\ getDataCollection(Undefined) =>
          last'.op = "rejected" /\ last'.value = "NotFound" /\ Untouched
     /\ \A g \in GuildArgs :
          commands = Undefined /\ registerAllApplicationCommands(1, Undefined, g) =>
            /\ last'.op = "throw" /\ last'.value = "NotFound"
            /\ inv'[1].pc = "failed" /\ last'.did.nSet = 0
            /\ UNCHANGED <<config, dispatch, loader, commands, ready, remote, remotePerms, fan>>
     /\ last'.op = "rejected" =>
          /\ \E k \in DOMAIN last'.args : last'.args[k] = Undefined
          /\ last'.value = "NotFound" /\ Untouched
     /\ last'.op = "registerPermissions" =>
          /\ (\/ ~IsDef(last'.appCommands) \/ ~IsDef(commands)
              \/ (~last'.list /\ last'.guildIds[1] = Undef))
               => /\ last'.value = "ReferenceError" /\ fan' = <<>>
                  /\ UNCHANGED <<config, dispatch, loader, commands, ready, remote, remotePerms, inv>>
          /\ last'.value = "ReferenceError" =>
               \/ ~IsDef(last'.appCommands) \/ ~IsDef(commands)
               \/ (~last'.list /\ last'.guildIds[1] = Undef)]_vars

\* with commands registered remotely and a collection loaded, editCommand
\* without its new definition and registerPermissions without a guild id
C11_Witness ==
  /\ /\ last.op = "rejected" /\ last.in = "editCommand"
     /\ IsDef(last.args[1]) /\ ~IsDef(last.args[2])
     /\ remote["global"] # {} /\ IsDef(commands)

\* C12: unregister on any definition returns true, whether or not the
\* definition is in the registry and whether or not it has a recorded module
\* path; afterwards the registry holds no entry under its name.
C12_Original ==
  last.op = "unregister" =>
    /\ last.value = "true"
    /\ IsDef(commands) => \A x \in Val(commands) : x.name # last.arg.name

\* C13: reload on a definition without a recorded module path returns null
\* and changes neither the registry nor the module cache nor the remote state;
\* on a definition with a recorded path it unregisters and then registers:
\* when reload suspends, the entry and the cache entry are gone and the import
\* of register is issued, and the instance is inserted after it.
OthersKept(name) ==
  /\ IsDef(commands) <=> IsDef(commands')
  /\ IsDef(commands) =>
       {x \in Val(commands') : x.name # name} = {x \in Val(commands) : x.name # name}

C13_ReloadNullOrUnregisterRegister ==
  [][/\ last'.op = "reload" /\ last'.arg.path = Undef =>
          /\ last'.value = "null"
          /\ UNCHANGED <<config, dispatch, loader, commands, ready, remote, remotePerms, inv, fan>>
     /\ last'.op = "reload" /\ last'.arg.path # Undef =>
          /\ last'.value = "pending"
          /\ OthersKept(last'.arg.name)
          /\ IsDef(commands') => \A x \in Val(commands') : x.name # last'.arg.name
          /\ cache'[last'.arg.path] = Undefined
          /\ imports' = Append(imports, imports'[Len(imports')])
          /\ imports'[Len(imports')].path = last'.arg.path
     /\ last'.op = "registered" /\ last'.call.by = "reload"
          /\ last'.value = "collection" /\ IsDef(commands) =>
            last'.instance \in Val(commands')]_vars

\* a definition the registry holds without a path is reloaded: null, and the
\* registry still holds it
C13_Witness ==
  /\ last.op = "reload" /\ last.value = "null"
  /\ IsDef(commands) /\ last.arg \in Val(commands)
  /\ Cardinality(Val(commands)) > 1

\* C14: unregister followed by reload, on a definition with a recorded path
\* whose module is unchanged, leaves the registry with exactly one definition
\* under the name, equal to the original in name, type and declared fields,
\* and no step of the three changes an entry of another name.
C14_Original ==
  [][/\ last'.op \in {"unregister", "reload"} => OthersKept(last'.arg.name)
     /\ last'.op = "registered" /\ last'.call.by = "reload" /\ last'.call.prior
          /\ ~last'.call.touched
          /\ disk[last'.call.path] = Module(Fresh(last'.call.arg)) =>
            /\ last'.value = "collection"
            /\ OthersKept(last'.call.arg.name)
            /\ IsDef(commands')
            /\ \E x \in Val(commands') :
                 /\ Fresh(x) = Fresh(last'.call.arg)
                 /\ \A y \in Val(commands') : y.name = last'.call.arg.name => y = x]_vars

\* C15: after register returns, the registry's collection, created when there
\* was none, contains the instance register constructed, under its name.
C15_Original ==
  last.op = "registered" /\ last.value = "collection" =>
    /\ IsDef(commands)
    /\ last.instance \in Val(commands)
    /\ last.returned = Val(commands)

\* C16: the registry holds at most one definition per name, and of the
\* modules of a load that declare one name the one discovered last is the one
\* the registry holds.
Named(m, n) == IsDef(m.default) /\ Val(m.default).name = n

C16_OnePerNameLaterWins ==
  /\ IsDef(commands) => \A x, y \in Val(commands) : x.name = y.name => x = y
  /\ last.op = "loadAll" =>
       /\ \A k \in DOMAIN last.discovered :
            LET m == last.modules[last.discovered[k]]
            IN IsDef(m.default) /\ Val(m.default).name # Undef =>
                 \E x \in last.value : x.name = Val(m.default).name
       /\ \A x \in last.value :
            \E k \in DOMAIN last.discovered :
              /\ x.path = last.discovered[k]
              /\ Fresh(x) = Val(last.modules[x.path].default)
              /\ \A j \in DOMAIN last.discovered :
                   j > k => ~Named(last.modules[last.discovered[j]], x.name)

\* a.js and b.js both declare ping: the registry holds the one of b.js
C16_Witness ==
  /\ last.op = "loadAll" /\ Len(last.discovered) >= 2
  /\ Named(last.modules["a.js"], "ping") /\ Named(last.modules["b.js"], "ping")
  /\ \E x \in last.value : x.name = "ping" /\ x.path = "b.js" /\ x.type = "CONTEXT_MENU_USER"

\* C17: each invocation of a loader's load-all starts from an empty
\* collection: after it the collection holds exactly the handlers of the
\* modules discovered in the directory by that invocation, and no entry of an
\* earlier invocation whose module is no longer discovered.
Loadable(m) == IsDef(m.default) /\ Val(m.default).name # Undef

C17_Original ==
  last.op \in {"events.registerAll", "loadAll"} =>
    /\ \A x \in last.value : \E k \in DOMAIN last.discovered : x.path = last.discovered[k]
    /\ \A k \in DOMAIN last.discovered :
         Loadable(last.modules[last.discovered[k]]) =>
           \E x \in last.value : x.name = Val(last.modules[last.discovered[k]].default).name

\* C18: a scan skips a module without a default export, or whose instance has
\* no name, and goes on: every other module of the directory, before and
\* after it, is loaded (unless a later module takes its name), and the
\* skipped module adds no entry.
C18_SkipWithoutAbort ==
  last.op = "events.registerAll" =>
    \A k \in DOMAIN last.discovered :
      LET p == last.discovered[k]
          m == last.modules[p]
      IN /\ Loadable(m) =>
              \/ \E x \in last.value : x.path = p /\ x.name = Val(m.default).name
              \/ \E j \in DOMAIN last.discovered :
                   j > k /\ Named(last.modules[last.discovered[j]], Val(m.default).name)
         /\ ~Loadable(m) => \A x \in last.value : x.path = p => x \in last.before

\* of three files the second is skipped, the first and the third are loaded
C18_Witness ==
  /\ last.op = "events.registerAll" /\ last.discovered = Paths
  /\ ~Loadable(last.modules["b.js"]) /\ last.before = {}
  /\ \E x \in last.value : x.path = "a.js"
  /\ \E x \in last.value : x.path = "c.js" /\ x.name = "guildCreate"

\* C19: a failure of a handler body during the dispatch of an event does not
\* leave the dispatch: it does not reach the emitter of the platform, and the
\* other listeners of the event are still called.
C19_Original ==
  last.op = "emit" =>
    /\ ~last.propagated
    /\ last.called = Len(last.targets)

\* C20: a trigger at time t is allowed iff the command and the user have no
\* entry or t >= expiresAt; an allowed trigger sets expiresAt = t + d and a
\* rejected one reports expiresAt - t and leaves the entries as they were; the
\* entries of other users and commands stay; and two allowed triggers of one
\* user for one command are at least d apart, bodies still pending included.
C20_CheckAndConsume ==
  /\ last.op = "trigger" =>
       /\ last.allowed <=> (~IsDef(last.entry) \/ last.at >= Val(last.entry))
       /\ last.allowed =>
            /\ entryOf(cooldowns, last.command, last.user) = Def(last.at + last.cooldown)
            /\ [command |-> last.command, user |-> last.user, at |-> last.at] \in bodies
       /\ ~last.allowed =>
            /\ last.remaining = Val(last.entry) - last.at
            /\ last.remaining > 0
            /\ cooldowns = last.before
            /\ bodies = last.pending
       /\ \A e \in last.before :
            ~(e.command = last.command /\ e.user = last.user) => e \in cooldowns
       /\ \A e \in cooldowns :
            ~(e.command = last.command /\ e.user = last.user) => e \in last.before
  /\ \A a, b \in bodies :
       (a.command = b.command /\ a.user = b.user /\ a # b) =>
         \E c \in Val(commands) :
           /\ c.name = a.command
           /\ (a.at - b.at >= c.cooldown \/ b.at - a.at >= c.cooldown)

\* d = 5: a trigger at t = 6 is allowed against the entry of an allowed trigger
\* whose body is still pending, beside the entry of another user
C20_Witness ==
  /\ last.op = "trigger" /\ last.command = "slow" /\ last.user = "u1"
  /\ last.allowed /\ last.at = 6 /\ last.entry = Def(5)
  /\ [command |-> "slow", user |-> "u1", at |-> 0] \in last.pending
  /\ \E e \in cooldowns : e.command = "slow" /\ e.user = "u2"

\* d = 5: a trigger at t = 3 is rejected with 2 seconds remaining
C20_WitnessRejected ==
  /\ last.op = "trigger" /\ last.command = "slow" /\ ~last.allowed
  /\ last.at = 3 /\ last.entry = Def(5) /\ last.remaining = 2

\* the gating checks a dispatch fails, each judged on its own
FailedGates ==
  LET c == last.command
      ctx == last.ctx
  IN {g \in {Gates[k] : k \in DOMAIN Gates} :
        \/ g = "adminsOnly" /\ c.adminsOnly /\ ctx.user \notin admins
        \/ g = "channel" /\ c.channel # Undef /\ c.channel # ctx.channel
        \/ g = "userPermissions" /\ c.userPermissions \ ctx.userPermissions # {}
        \/ g = "clientPermissions" /\ c.clientPermissions \ ctx.clientPermissions # {}
        \/ g = "cooldown" /\ IsDef(last.entry) /\ last.at < Val(last.entry)}

\* C21: the cause a dispatch reports is that of the first check that fails in
\* the order admin-only, channel, user permissions, client permissions,
\* cooldown; the handler body starts only when none fails; and a rejection by
\* one of the first four checks leaves the cooldown entries as they were.
C21_GatingOrder ==
  last.op = "dispatch" =>
    /\ IF FailedGates = {} THEN last.cause = ""
       ELSE \E k \in DOMAIN Gates :
              /\ last.cause = Gates[k]
              /\ Gates[k] \in FailedGates
              /\ \A j \in 1..(k - 1) : Gates[j] \notin FailedGates
    /\ last.cause # "" => bodies = last.pending
    /\ last.cause = "" =>
         [command |-> last.command.name, user |-> last.ctx.user, at |-> last.at] \in bodies
    /\ last.cause # "" => cooldowns = last.before
    /\ last.cause = "" =>
         entryOf(cooldowns, last.command.name, last.ctx.user)
           = Def(last.at + last.command.cooldown)

\* an admin in a guild channel, holding the user permission, inside the
\* cooldown window, whose client lacks its permission: rejected for the
\* client permission, the entry unchanged
C21_Witness ==
  /\ last.op = "dispatch" /\ last.command.name = "mod"
  /\ last.cause = "clientPermissions"
  /\ {"clientPermissions", "cooldown"} \subseteq FailedGates
  /\ cooldowns = last.before /\ cooldowns # {}

\* C22: every invocation of registerAll on a defined collection that waits for
\* readiness eventually returns or fails, also when the client emitted 'ready'
\* before the invocation.
C22_Original == (inv[1].pc = "awaitReady") ~> (inv[1].pc \in {"done", "failed"})

\* C23: every definition the registry holds has its module path recorded, so
\* that the definition register or reload inserted can be reloaded again.
C23_Original ==
  /\ IsDef(commands) => \A x \in Val(commands) : x.path # Undef
  /\ last.op = "reload" /\ IsDef(commands) /\ last.arg \in Val(commands) =>
       last.value # "null"

\* C24: the bulk replace of registerAll carries the projection of the registry
\* as it is when the invocation resumes from the wait for readiness.
C24_Original ==
  last.op = "commands.set" =>
    /\ IsDef(commands)
    /\ last.payload = getDataAll(Val(commands))

\* C25: when registerPermissions over a list of guild ids has settled, the
\* permission submission of every guild of the list has completed or failed.
C25_Original ==
  last.op = "registerPermissions" /\ last.list /\ last.value = "true" =>
    \A k \in DOMAIN fan : fan[k].status # "pending"

\* C26: however often the events are loaded and registered, an occurrence of
\* an event runs the execute of each loaded handler at most once, and a handler
\* flagged once that has run is not run again.
C26_Original ==
  last.op = "emit" =>
    /\ \A j, k \in 1..last.called :
         (j # k /\ last.targets[j].calls = "execute")
           => last.targets[j].handler # last.targets[k].handler
    /\ \A j \in 1..last.called :
         (last.targets[j].calls = "execute" /\ last.targets[j].handler.once)
           => \A k \in DOMAIN listeners :
                listeners[k].handler # last.targets[j].handler

\* C27: a trigger of a user for a command is rejected while less than the
\* cooldown of the command has passed since a trigger of that user for it was
\* allowed, also when the command was reloaded in between.
C27_Original ==
  last.op = "trigger" /\ last.allowed =>
    \A b \in last.pending :
      (b.command = last.command /\ b.user = last.user)
        => last.at >= b.at + last.cooldown

====
